---- MODULE Spec2Model ----
(***************************************************************************)
(* A model of fireant's slicer query manager (fireant/slicer/queries.py):  *)
(* the reference resolver (_get_reference_mappers), the reference join     *)
(* criterion (_build_reference_join_criterion), the query compiler         *)
(* (_build_query) and the materializer (_query_data), together with the    *)
(* evaluation of the compiled expressions on rows by the database.         *)
(*                                                                         *)
(* Strings.  A Python string is modelled as the sequence of its maximal    *)
(* underscore-free runs ("words") and its underscores: "wow_d" is          *)
(* <<"wow", "_", "d">>, "wow_" is <<"wow", "_">> and "" is <<>>.  No two   *)
(* words are adjacent, so two strings are equal iff their sequences are,   *)
(* str.split('_') and '%s_%s' % (a, b) are exact on this representation.   *)
(*                                                                         *)
(* Dates are whole numbers of weeks; Interval(quarters=1) is a quarter of  *)
(* a 52-week year.  Numbers are exact rationals.                           *)
(***************************************************************************)
EXTENDS Integers, Sequences, FiniteSets, TLC

VARIABLES
    pc,         \* position of the _query_data call: "idle", "returned", "raised"
    request,    \* the arguments of the _query_data call
    query,      \* the compiled query (_build_query's return value)
    error,      \* the exception that left _query_data
    fetched,    \* the calls made to settings.database.fetch_dataframe
    frame,      \* the data frame _query_data returned
    ref,        \* the reference resolver applied to one key and one pair of rows
    expansion   \* a UniqueDimension, its schemas() and the query compiled from them

vars == <<pc, request, query, error, fetched, frame, ref, expansion>>

(***************************************************************************)
(* Bounds of the model.                                                    *)
(***************************************************************************)
MaxDimensions == 2
MaxMetrics == 2
MaxReferences == 2
MaxValue == 2
MaxDate == 1
MaxIdFields == 2

Null == [null |-> TRUE]

(***************************************************************************)
(* Strings.                                                                *)
(***************************************************************************)
Str(word) == <<word>>

\* '%s_%s' % (key, reference_key)
AliasFormat(key, reference_key) == key \o <<"_">> \o reference_key

HasUnderscore(s) == \E i \in 1..Len(s) : s[i] = "_"

FirstUnderscore(s) == CHOOSE i \in 1..Len(s) : s[i] = "_" /\ \A j \in 1..(i - 1) : s[j] # "_"

\* str.split('_'): the pieces between ALL the underscores, empty pieces kept
RECURSIVE Split(_)
Split(s) ==
    IF ~HasUnderscore(s) THEN <<s>>
    ELSE LET i == FirstUnderscore(s)
         IN  <<SubSeq(s, 1, i - 1)>> \o Split(SubSeq(s, i + 1, Len(s)))

(***************************************************************************)
(* pypika terms, as the expression trees the code builds.                  *)
(***************************************************************************)
\* a definition object handed in by the caller: id is its object identity
Term(kind, id) == [op |-> "term", kind |-> kind, id |-> id]
\* reference_query.field(key): the column named key of sub-query number table
Field(table, name) == [op |-> "field", table |-> table, name |-> name]
\* dimension.for_(query): the same definition read from sub-query number table
For(term, table) == [op |-> "for", term |-> term, table |-> table]
Interval(unit, n) == [op |-> "interval", unit |-> unit, n |-> n]
Eq(a, b) == [op |-> "eq", left |-> a, right |-> b]
Sub(a, b) == [op |-> "sub", left |-> a, right |-> b]
Div(a, b) == [op |-> "div", left |-> a, right |-> b]
And(a, b) == [op |-> "and", left |-> a, right |-> b]

(***************************************************************************)
(* The reference tables and the resolver.                                  *)
(***************************************************************************)
ReferenceBases == {Str("yoy"), Str("qoq"), Str("mom"), Str("wow")}
ReferenceModifiers == {Str("d"), Str("p")}

\* the dict reference_criterion: base key -> lambda key, join_key
reference_criterion(base, key, join_key) ==
    CASE base = Str("yoy") -> Eq(key, Sub(join_key, Interval("weeks", 52)))
      [] base = Str("qoq") -> Eq(key, Sub(join_key, Interval("quarters", 1)))
      [] base = Str("mom") -> Eq(key, Sub(join_key, Interval("weeks", 4)))
      [] base = Str("wow") -> Eq(key, Sub(join_key, Interval("weeks", 1)))

FieldSwapped(modifier, field, join_field) ==
    CASE modifier = Str("d") -> Sub(join_field, field)
      [] modifier = Str("p") -> Div(Sub(join_field, field), field)
      [] modifier = <<>>     -> field

\* the dict reference_field (d, p) and the default lambda (no modifier: <<>>)
reference_field(modifier, field, join_field) ==
    CASE modifier = Str("d") -> Sub(field, join_field)
      [] modifier = Str("p") -> Div(Sub(field, join_field), join_field)
      [] modifier = <<>>     -> join_field

KeyError(key) == [status |-> "KeyError", key |-> key]

MappersLenient(reference_key) ==
    LET parts == Split(reference_key)
        head == Head(parts)
        optional_parts == Tail(parts)
    IN  [status |-> "ok",
         criterion_f |-> IF head \in ReferenceBases THEN head ELSE Str("wow"),
         field_f |-> IF optional_parts # <<>> /\ optional_parts[1] \in ReferenceModifiers
                     THEN optional_parts[1] ELSE <<>>]

\* _get_reference_mappers: the two functions are named by their dict keys
get_reference_mappers(reference_key) ==
    LET parts == Split(reference_key)
        head == Head(parts)
        optional_parts == Tail(parts)
    IN  IF head \notin ReferenceBases THEN KeyError(head)
        ELSE IF optional_parts # <<>> /\ optional_parts[1] \notin ReferenceModifiers
             THEN KeyError(optional_parts[1])
        ELSE [status |-> "ok",
              criterion_f |-> head,
              field_f |-> IF optional_parts # <<>> THEN optional_parts[1] ELSE <<>>]

(***************************************************************************)
(* Requests: ordered dicts are sequences of [key, definition] items.       *)
(***************************************************************************)
Item(key, definition) == [key |-> key, definition |-> definition]

Keys(items) == [i \in 1..Len(items) |-> items[i].key]

Range(s) == {s[i] : i \in 1..Len(s)}

HasKey(items, key) == \E i \in 1..Len(items) : items[i].key = key

\* dict[key]
Lookup(items, key) == items[CHOOSE i \in 1..Len(items) : items[i].key = key].definition

\* _build_reference_join_criterion; query is the number of the reference sub-query
build_reference_join_criterion(sq, dimensions, criterion_f, dimension_key) ==
    IF ~HasKey(dimensions, dimension_key) THEN KeyError(dimension_key)
    ELSE
        LET compared_dimension == Lookup(dimensions, dimension_key)
            first == reference_criterion(criterion_f, compared_dimension,
                                         Field(sq, dimension_key))
            conj[i \in 0..Len(dimensions)] ==
                IF i = 0 THEN first
                ELSE LET dimension == dimensions[i].definition
                     IN  IF dimension.id # compared_dimension.id
                         THEN And(conj[i - 1], Eq(dimension, For(dimension, sq)))
                         ELSE conj[i - 1]
        IN  [status |-> "ok", cx |-> conj[Len(dimensions)]]

(***************************************************************************)
(* pypika queries, as the parts the builder calls fill in.                 *)
(***************************************************************************)
\* Query.from_(table); shares tells whether the object's lists are the very
\* lists of the query it was copied from (never so for a fresh query)
From(table) ==
    [from |-> table, joins |-> <<>>, selects |-> <<>>, groupbys |-> <<>>,
     orderbys |-> <<>>, wheres |-> <<>>, havings |-> <<>>, shares |-> FALSE]

\* term.as_(alias)
As(term, alias) == [alias |-> alias, term |-> term]

\* query.join(target, how=how).on(criterion)
Join(q, target, how, criterion) ==
    [q EXCEPT !.joins =
        @ \o <<[target |-> target, how |-> how, on |-> criterion, sub |-> FALSE]>>]

\* query.join(reference_query).on(criterion): the target is a query, the join
\* type pypika's default
JoinQuery(q, reference_query, criterion) ==
    [q EXCEPT !.joins =
        @ \o <<[target |-> reference_query, how |-> "inner", on |-> criterion,
                sub |-> TRUE]>>]

Select(q, terms) == [q EXCEPT !.selects = @ \o terms]

GroupBy(q, terms) ==
    [q EXCEPT !.groupbys =
        @ \o [i \in 1..Len(terms) |-> [alias |-> terms[i].alias, rollup |-> FALSE]]]

Rollup(q, terms) ==
    [q EXCEPT !.groupbys =
        @ \o [i \in 1..Len(terms) |-> [alias |-> terms[i].alias, rollup |-> TRUE]]]

OrderBy(q, terms) ==
    [q EXCEPT !.orderbys = @ \o [i \in 1..Len(terms) |-> terms[i].alias]]

\* a where() that files the criterion under HAVING
WhereAsHaving(q, criterion) == [q EXCEPT !.havings = Append(@, criterion)]

Where(q, criterion) == [q EXCEPT !.wheres = Append(@, criterion)]

Having(q, criterion) == [q EXCEPT !.havings = Append(@, criterion)]

\* query.groupby_aliases(): the aliases of the grouped terms, ROLLUP ones included
groupby_aliases(q) == [i \in 1..Len(q.groupbys) |-> q.groupbys[i].alias]

\* query.select_aliases(): the aliases of the selected terms
select_aliases(q) == [i \in 1..Len(q.selects) |-> q.selects[i].alias]

\* copy.copy(query): a new query object holding the lists of the original
ShallowCopy(q) == [q EXCEPT !.shares = TRUE]

\* copy.deepcopy(query): a value of its own, sharing nothing with query
DeepCopy(q) == [q EXCEPT !.shares = FALSE]

\* The object graph when _build_query returns: a joined query that shares the
\* outer query's lists shows everything added to them since it was joined (its
\* own occurrence in the join list is left out to keep the value finite).
AsReturned(q) ==
    [q EXCEPT !.joins =
        [i \in 1..Len(@) |->
            IF @[i].sub /\ @[i].target.shares
            THEN [@[i] EXCEPT !.target = [q EXCEPT !.joins = <<>>, !.shares = TRUE]]
            ELSE @[i]]]

(***************************************************************************)
(* _build_query.                                                           *)
(***************************************************************************)
RECURSIVE Filter(_, _, _)
\* [dimension.as_(key) for key, dimension in dimensions.items() if (key in rollup) = member]
Filter(dimensions, rollup, member) ==
    IF dimensions = <<>> THEN <<>>
    ELSE LET rest == Filter(Tail(dimensions), rollup, member)
             item == Head(dimensions)
         IN  IF (item.key \in rollup) = member
             THEN <<As(item.definition, item.key)>> \o rest
             ELSE rest

DxUnpartitioned(dimensions, rollup) ==
    [i \in 1..Len(dimensions) |-> As(dimensions[i].definition, dimensions[i].key)]

\* dx: the dimensions that are not rolled up, in declared order
dx(dimensions, rollup) == Filter(dimensions, rollup, FALSE)

\* rx: the dimensions that are rolled up, in declared order
rx(dimensions, rollup) == Filter(dimensions, rollup, TRUE)

\* mx
mx(metrics) == [i \in 1..Len(metrics) |-> As(metrics[i].definition, metrics[i].key)]

AliasBaseOnly(key, reference_key) == key \o <<"_">> \o Head(Split(reference_key))

\* '%s_%s' % (key, reference_key)
reference_alias(key, reference_key) == AliasFormat(key, reference_key)

ComparisonMetricsOnly(sq, dimensions, metrics, reference_key, field_f) ==
    [i \in 1..Len(metrics) |->
        As(reference_field(field_f, metrics[i].definition, Field(sq, metrics[i].key)),
           reference_alias(metrics[i].key, reference_key))]

\* the columns one reference adds: the comparison dimensions, then the
\* comparison metrics
comparison_selects(sq, dimensions, metrics, reference_key, field_f) ==
    [i \in 1..Len(dimensions) |->
        As(Field(sq, dimensions[i].key), reference_alias(dimensions[i].key, reference_key))]
    \o
    [i \in 1..Len(metrics) |->
        As(reference_field(field_f, metrics[i].definition, Field(sq, metrics[i].key)),
           reference_alias(metrics[i].key, reference_key))]

\* the body of "for reference_key, dimension_key in references.items()"
add_comparison(q, metrics, dimensions, reference) ==
    LET mappers == get_reference_mappers(reference.key)
    IN  IF mappers.status # "ok" THEN mappers
        ELSE
          LET reference_query == DeepCopy(q)
              sq == Len(q.joins) + 1
              built == build_reference_join_criterion(
                           sq, dimensions, mappers.criterion_f, reference.dimension)
          IN  IF built.status # "ok" THEN built
              ELSE [status |-> "ok",
                    query |-> Select(JoinQuery(q, reference_query, built.cx),
                                     comparison_selects(sq, dimensions, metrics,
                                                        reference.key, mappers.field_f))]

RECURSIVE add_comparisons(_, _, _, _)
add_comparisons(q, metrics, dimensions, references) ==
    IF references = <<>> THEN [status |-> "ok", query |-> q]
    ELSE LET one == add_comparison(q, metrics, dimensions, Head(references))
         IN  IF one.status # "ok" THEN one
             ELSE add_comparisons(one.query, metrics, dimensions, Tail(references))

RECURSIVE add_joins(_, _)
\* for join_table, criterion, join_type in joins
add_joins(q, joins) ==
    IF joins = <<>> THEN q
    ELSE LET join == Head(joins)
         IN  add_joins(Join(q, join.table, join.how, join.criterion), Tail(joins))

RECURSIVE add_wheres(_, _)
\* for dfx in dfilters
add_wheres(q, dfilters) ==
    IF dfilters = <<>> THEN q ELSE add_wheres(Where(q, Head(dfilters)), Tail(dfilters))

RECURSIVE add_havings(_, _)
\* for mfx in mfilters
add_havings(q, mfilters) ==
    IF mfilters = <<>> THEN q ELSE add_havings(Having(q, Head(mfilters)), Tail(mfilters))

\* a builder that filters and orders the query before it adds the comparisons
BuildQueryFiltersFirst(table, joins, metrics, dimensions, mfilters, dfilters, references, rollup) ==
    LET joined == add_joins(From(table), joins)
        d == dx(dimensions, rollup)
        r == rx(dimensions, rollup)
        grouped == Rollup(Select(GroupBy(Select(joined, d), d), r), r)
        selected == Select(grouped, mx(metrics))
        filtered == add_havings(
                        add_wheres(OrderBy(OrderBy(selected, d), r), dfilters), mfilters)
        compared == add_comparisons(filtered, metrics, dimensions, references)
    IN  IF compared.status # "ok" THEN compared
        ELSE [status |-> "ok", query |-> AsReturned(compared.query)]

build_query(table, joins, metrics, dimensions, mfilters, dfilters, references, rollup) ==
    LET joined == add_joins(From(table), joins)
        d == dx(dimensions, rollup)
        r == rx(dimensions, rollup)
        grouped == Rollup(Select(GroupBy(Select(joined, d), d), r), r)
        selected == Select(grouped, mx(metrics))
        compared == add_comparisons(selected, metrics, dimensions, references)
    IN  IF compared.status # "ok" THEN compared
        ELSE [status |-> "ok",
              query |-> AsReturned(add_havings(
                            add_wheres(OrderBy(OrderBy(compared.query, d), r), dfilters),
                            mfilters))]

\* Database.fetch_dataframe: pd.read_sql(query, connection, index_col=index) moves
\* the index columns of the result set into the index
fetch_dataframe(q, columns, index) ==
    [index |-> index,
     columns |-> SelectSeq(select_aliases(q), LAMBDA a : a \notin Range(index))]

(***************************************************************************)
(* The database evaluating a compiled expression on a pair of rows: the    *)
(* outer query's row and a row of the reference sub-query.                 *)
(***************************************************************************)
Abs(n) == IF n < 0 THEN -n ELSE n

RECURSIVE GCD(_, _)
GCD(a, b) == IF b = 0 THEN a ELSE GCD(b, a % b)

\* the rational n/d in lowest terms, d > 0
Num(n, d) ==
    LET g == GCD(Abs(n), Abs(d))
        sign == IF d < 0 THEN -1 ELSE 1
    IN  [kind |-> "num", num |-> sign * (n \div g), den |-> sign * (d \div g)]

Bool(b) == [kind |-> "bool", num |-> IF b THEN 1 ELSE 0, den |-> 1]
SqlNull == [kind |-> "null", num |-> 0, den |-> 1]
SqlError == [kind |-> "error", num |-> 0, den |-> 1]

\* what x / 0 yields is the engine's choice: it raises, or it yields NULL
DivisionByZero(engine) == IF engine = "raises" THEN SqlError ELSE SqlNull

IndexOfKey(items, key) == CHOOSE i \in 1..Len(items) : items[i].key = key
IndexOfId(items, id) == CHOOSE i \in 1..Len(items) : items[i].definition.id = id

IntervalWeeks(e) == IF e.unit = "quarters" THEN 13 * e.n ELSE e.n

Arith(op, a, b, engine) ==
    IF a.kind = "error" \/ b.kind = "error" THEN SqlError
    ELSE IF a.kind = "null" \/ b.kind = "null" THEN SqlNull
    ELSE CASE op = "sub" -> Num(a.num * b.den - b.num * a.den, a.den * b.den)
           [] op = "div" -> IF b.num = 0 THEN DivisionByZero(engine)
                            ELSE Num(a.num * b.den, a.den * b.num)
           [] op = "eq"  -> Bool(a.num = b.num /\ a.den = b.den)
           [] op = "and" -> Bool(a.num = 1 /\ b.num = 1)

\* env: the request's dimensions, the outer row and the sub-query row (one
\* value per dimension), the outer and the sub-query value of the metric
RECURSIVE Eval(_, _)
Eval(e, env) ==
    CASE e.op = "term" ->
            IF e.kind = "metric" THEN Num(env.current, 1)
            ELSE Num(env.outer[IndexOfId(env.dimensions, e.id)], 1)
      [] e.op = "field" ->
            IF HasKey(env.dimensions, e.name)
            THEN Num(env.sub[IndexOfKey(env.dimensions, e.name)], 1)
            ELSE Num(env.joined, 1)
      [] e.op = "for" -> Num(env.sub[IndexOfId(env.dimensions, e.term.id)], 1)
      [] e.op = "interval" -> Num(IntervalWeeks(e), 1)
      [] OTHER -> Arith(e.op, Eval(e.left, env), Eval(e.right, env), env.engine)

(***************************************************************************)
(* The inputs.                                                             *)
(***************************************************************************)
DimensionPool ==
    {Item(Str("date"), Term("dimension", 1)), Item(Str("cat"), Term("dimension", 2))}

MetricPool ==
    {Item(Str("clicks"), Term("metric", 3)),
     Item(<<"clicks", "_", "wow">>, Term("metric", 4))}

\* the sequences of at most n distinct members of pool
DistinctSeqs(pool, n) ==
    UNION {{s \in [1..k -> pool] : \A i, j \in 1..k : i # j => s[i] # s[j]} : k \in 0..n}

Suffixes ==
    {<<>>, <<"_">>, <<"_", "d">>, <<"_", "p">>, <<"_", "x">>,
     <<"_", "d", "_", "p">>, <<"_", "d", "_", "x">>, <<"_", "x", "_", "d">>}

\* the reference keys the resolver is applied to
ReferenceKeys ==
    {b \o m : b \in ReferenceBases \cup {Str("foo"), <<>>}, m \in Suffixes}

Dates == 60..(60 + MaxDate)
Shifts == {0, 1, 4, 13, 52}
Values == 0..MaxValue \cup {100, 105, 120}
Engines == {"raises", "null"}

\* the dimensions of the resolver's requests: day is the same definition object
\* as date, under a second key
SharedDimensionPool == DimensionPool \cup {Item(Str("day"), Term("dimension", 1))}

Row(dimensions, date, cat) ==
    [i \in 1..Len(dimensions) |-> IF dimensions[i].definition.id = 1 THEN date ELSE cat]

(***************************************************************************)
(* The reference resolver, step by step on one key.                        *)
(***************************************************************************)
InitRef ==
    /\ pc = "idle"
    /\ request = Null
    /\ query = Null
    /\ error = Null
    /\ fetched = <<>>
    /\ frame = Null
    /\ ref = [pc |-> "start"]
    /\ expansion = Null

\* criterion_f, field_f = self._get_reference_mappers(reference_key)
GetReferenceMappers ==
    /\ ref.pc = "start"
    /\ \E reference_key \in ReferenceKeys :
          ref' = [pc |-> "resolved",
                  reference_key |-> reference_key,
                  mappers |-> get_reference_mappers(reference_key)]
    /\ UNCHANGED <<pc, request, query, error, fetched, frame, expansion>>

\* cx = self._build_reference_join_criterion(reference_query, dimensions, ...)
BuildReferenceJoinCriterion ==
    /\ ref.pc = "resolved"
    /\ ref.mappers.status = "ok"
    /\ \E dimensions \in DistinctSeqs(SharedDimensionPool, MaxDimensions),
          dimension_key \in {item.key : item \in SharedDimensionPool} :
          ref' = [pc |-> "criterion",
                  reference_key |-> ref.reference_key,
                  mappers |-> ref.mappers,
                  dimensions |-> dimensions,
                  dimension_key |-> dimension_key,
                  built |-> build_reference_join_criterion(
                                1, dimensions, ref.mappers.criterion_f, dimension_key)]
    /\ UNCHANGED <<pc, request, query, error, fetched, frame, expansion>>

\* the database decides whether an outer row and a sub-query row are joined
JoinRows ==
    /\ ref.pc = "criterion"
    /\ ref.built.status = "ok"
    /\ \E date \in Dates, shift \in Shifts, sign \in {-1, 1}, cat \in {0, 1} :
          LET outer == Row(ref.dimensions, date, 0)
              sub == Row(ref.dimensions, date + sign * shift, cat)
              env == [dimensions |-> ref.dimensions, outer |-> outer, sub |-> sub,
                      current |-> 0, joined |-> 0, engine |-> "raises"]
          IN  ref' = [pc |-> "joined",
                      reference_key |-> ref.reference_key,
                      mappers |-> ref.mappers,
                      dimensions |-> ref.dimensions,
                      dimension_key |-> ref.dimension_key,
                      outer |-> outer,
                      sub |-> sub,
                      matched |-> Eval(ref.built.cx, env)]
    /\ UNCHANGED <<pc, request, query, error, fetched, frame, expansion>>

\* the database computes field_f(metric, reference_query.field(key)) on a row
DeriveValue ==
    /\ ref.pc = "resolved"
    /\ ref.mappers.status = "ok"
    /\ \E current \in Values, joined \in Values, engine \in Engines :
          LET env == [dimensions |-> <<>>, outer |-> <<>>, sub |-> <<>>,
                      current |-> current, joined |-> joined, engine |-> engine]
              derived == reference_field(ref.mappers.field_f,
                                         Term("metric", 3), Field(1, Str("clicks")))
          IN  ref' = [pc |-> "derived",
                      reference_key |-> ref.reference_key,
                      mappers |-> ref.mappers,
                      current |-> current,
                      joined |-> joined,
                      engine |-> engine,
                      value |-> Eval(derived, env)]
    /\ UNCHANGED <<pc, request, query, error, fetched, frame, expansion>>

NextRef ==
    \/ GetReferenceMappers
    \/ BuildReferenceJoinCriterion
    \/ JoinRows
    \/ DeriveValue

SpecRef == InitRef /\ [][NextRef]_vars

(***************************************************************************)
(* _query_data on one request.                                             *)
(***************************************************************************)
RollupPool == {Str("date"), Str("cat"), Str("region")}

\* the reference keys of the requests
RequestReferenceKeys ==
    {Str("wow"), <<"wow", "_", "d">>, <<"yoy", "_", "p">>, Str("foo"), <<"foo", "_", "d">>}

ReferencePool ==
    {[key |-> k, dimension |-> d] : k \in RequestReferenceKeys,
                                   d \in {Str("date"), Str("cat")}}

\* a dict has each key once
DistinctKeys(items) == \A i, j \in 1..Len(items) : i # j => items[i].key # items[j].key

References ==
    {s \in UNION {[1..k -> ReferencePool] : k \in 0..MaxReferences} : DistinctKeys(s)}

\* the declared joins and the filters of the requests
Extras ==
    {[joins |-> <<>>, dfilters |-> <<>>, mfilters |-> <<>>],
     [joins |-> <<[table |-> "other", how |-> "left", criterion |-> "on_other"]>>,
      dfilters |-> <<"where_1", "where_2">>, mfilters |-> <<"having_1">>],
     [joins |-> <<>>,
      dfilters |-> <<"where_1">>, mfilters |-> <<"having_1", "having_2">>]}

Init ==
    /\ pc = "idle"
    /\ request = Null
    /\ query = Null
    /\ error = Null
    /\ fetched = <<>>
    /\ frame = Null
    /\ ref = Null
    /\ expansion = Null

\* the call returns the frame the database fetched for the compiled query
Return(req, q) ==
    LET df_idx == groupby_aliases(q)
        df_cols == select_aliases(q)
    IN  /\ pc' = "returned"
        /\ request' = req
        /\ query' = q
        /\ error' = Null
        /\ fetched' = Append(fetched, [columns |-> df_cols, index |-> df_idx])
        /\ frame' = fetch_dataframe(q, df_cols, df_idx)

\* _build_query raised: nothing is fetched, nothing is returned
Raise(req, e) ==
    /\ pc' = "raised"
    /\ request' = req
    /\ query' = Null
    /\ error' = e
    /\ UNCHANGED <<fetched, frame>>

QueryData ==
    /\ pc = "idle"
    /\ \E metrics \in DistinctSeqs(MetricPool, MaxMetrics),
          dimensions \in DistinctSeqs(DimensionPool, MaxDimensions),
          references \in References,
          rollup \in SUBSET RollupPool,
          extras \in Extras :
          LET req == [table |-> "table", joins |-> extras.joins,
                      metrics |-> metrics, dimensions |-> dimensions,
                      mfilters |-> extras.mfilters, dfilters |-> extras.dfilters,
                      references |-> references, rollup |-> rollup]
              built == build_query(req.table, req.joins, req.metrics, req.dimensions,
                                   req.mfilters, req.dfilters, req.references, req.rollup)
          IN  IF built.status = "ok" THEN Return(req, built.query)
              ELSE Raise(req, built)
    /\ UNCHANGED <<ref, expansion>>

Next == QueryData

Spec == Init /\ [][Next]_vars

(***************************************************************************)
(* UniqueDimension (fireant/slicer/schemas.py) and its expansion.          *)
(***************************************************************************)
\* an optional argument: None, or a value
None == [some |-> FALSE]
Some(value) == [some |-> TRUE, value |-> value]

\* pypika Field(key): the column named key of the table
Column(key) == [op |-> "column", name |-> key]

\* UniqueDimension.__init__ -> Dimension.__init__ -> SlicerElement.__init__:
\* definition = label_field or Field(key)
UniqueDimension(key, label_field, id_fields) ==
    [key |-> key,
     definition |-> IF label_field.some THEN label_field.value ELSE Column(key),
     label_field |-> label_field,
     id_fields |-> id_fields]

TypeError == [status |-> "TypeError"]

\* '{key}_id{ordinal}'.format(key=self.key, ordinal=i)
IdKey(key, i) == key \o <<"_", "id" \o ToString(i)>>

\* '{key}_label'.format(key=self.key)
LabelKey(key) == key \o <<"_", "label">>

SchemasOneBased(self, args) ==
    IF ~self.id_fields.some THEN TypeError
    ELSE [status |-> "ok",
          pairs |-> [i \in 1..Len(self.id_fields.value) |->
                        <<IdKey(self.key, i), self.id_fields.value[i]>>]
                    \o << <<LabelKey(self.key), self.definition>> >>]

\* UniqueDimension.schemas(*args); enumerate(None) raises TypeError
schemas(self, args) ==
    IF ~self.id_fields.some THEN TypeError
    ELSE [status |-> "ok",
          pairs |-> [i \in 1..Len(self.id_fields.value) |->
                        <<IdKey(self.key, i - 1), self.id_fields.value[i]>>]
                    \o << <<LabelKey(self.key), self.definition>> >>]

\* the (output key, expression) pairs of the expansions become the items of the
\* dimensions dict handed to _build_query; the rollup keys are handed on as given
expanded_dimensions(pairs) == [i \in 1..Len(pairs) |-> Item(pairs[i][1], pairs[i][2])]

UniqueKeys == {Str("user"), <<"ad", "_", "group">>}
IdExpressions == {Term("dimension", 5), Term("dimension", 6)}
LabelExpressions == {None, Some(Term("dimension", 7))}
IdFieldLists ==
    {None} \cup {Some(l) : l \in UNION {[1..k -> IdExpressions] : k \in 0..MaxIdFields}}
SchemasArgs == {<<>>, <<"WW">>, <<5, 1>>}

InitSchemas ==
    /\ pc = "idle"
    /\ request = Null
    /\ query = Null
    /\ error = Null
    /\ fetched = <<>>
    /\ frame = Null
    /\ ref = Null
    /\ expansion = [pc |-> "start"]

\* UniqueDimension(key, label_field=..., id_fields=...)
Declare ==
    /\ expansion.pc = "start"
    /\ \E key \in UniqueKeys, label_field \in LabelExpressions, id_fields \in IdFieldLists :
          expansion' = [pc |-> "declared",
                        dimension |-> UniqueDimension(key, label_field, id_fields)]
    /\ UNCHANGED <<pc, request, query, error, fetched, frame, ref>>

\* dimension.schemas(*args)
Schemas ==
    /\ expansion.pc = "declared"
    /\ \E args \in SchemasArgs :
          expansion' = [pc |-> "expanded",
                        dimension |-> expansion.dimension,
                        args |-> args,
                        result |-> schemas(expansion.dimension, args)]
    /\ UNCHANGED <<pc, request, query, error, fetched, frame, ref>>

\* _build_query on the date dimension, the expanded unique dimension and clicks
CompileExpansion ==
    /\ expansion.pc = "expanded"
    /\ expansion.result.status = "ok"
    /\ \E rollup \in SUBSET ({expansion.dimension.key, Str("date")}
                             \cup {expansion.result.pairs[i][1] :
                                     i \in 1..Len(expansion.result.pairs)}),
          first \in BOOLEAN :
          LET date == <<Item(Str("date"), Term("dimension", 1))>>
              unique == expanded_dimensions(expansion.result.pairs)
              dimensions == IF first THEN unique \o date ELSE date \o unique
              metrics == <<Item(Str("clicks"), Term("metric", 3))>>
          IN  expansion' = [pc |-> "compiled",
                            dimension |-> expansion.dimension,
                            result |-> expansion.result,
                            dimensions |-> dimensions,
                            rollup |-> rollup,
                            built |-> build_query("table", <<>>, metrics, dimensions,
                                                  <<>>, <<>>, <<>>, rollup)]
    /\ UNCHANGED <<pc, request, query, error, fetched, frame, ref>>

NextSchemas ==
    \/ Declare
    \/ Schemas
    \/ CompileExpansion

SpecSchemas == InitSchemas /\ [][NextSchemas]_vars

(***************************************************************************)
(* What the properties below read.                                         *)
(***************************************************************************)
\* the text of a key before, and after, its first underscore
BeforeFirst(s) == IF HasUnderscore(s) THEN SubSeq(s, 1, FirstUnderscore(s) - 1) ELSE s
AfterFirst(s) == SubSeq(s, FirstUnderscore(s) + 1, Len(s))

\* the documented shift of each reference, in weeks
DocumentedWeeks(base) ==
    CASE base = Str("wow") -> 1
      [] base = Str("mom") -> 4
      [] base = Str("qoq") -> 13
      [] base = Str("yoy") -> 52

Called == pc \in {"returned", "raised"}

LastFetch == fetched[Len(fetched)]

DimensionKeys == Keys(request.dimensions)
MetricKeys == Keys(request.metrics)

NonRollupKeys == SelectSeq(DimensionKeys, LAMBDA k : k \notin request.rollup)
RollupKeys == SelectSeq(DimensionKeys, LAMBDA k : k \in request.rollup)

Suffixed(keys, reference_key) ==
    [i \in 1..Len(keys) |-> keys[i] \o <<"_">> \o reference_key]

RECURSIVE Concat(_)
Concat(seqs) == IF seqs = <<>> THEN <<>> ELSE Head(seqs) \o Concat(Tail(seqs))

Distinct(s) == \A i, j \in 1..Len(s) : i # j => s[i] # s[j]

\* C1: an outer row is joined, on the compared dimension, to the sub-query row
\* dated one documented offset EARLIER (wow 1 week, mom 4 weeks, qoq 1 quarter,
\* yoy 52 weeks), never to a later row.
C1_JoinedRowIsPriorPeriod ==
    (ref.pc = "joined" /\ ref.matched.num = 1) =>
        LET i == IndexOfKey(ref.dimensions, ref.dimension_key)
        IN  ref.sub[i] = ref.outer[i] - DocumentedWeeks(BeforeFirst(ref.reference_key))

\* C2: the derived value depends on the modifier alone: none gives the joined
\* value, d gives current - joined, p gives (current - joined) / joined (joined
\* not 0); 120 and 100 give 100 and 20, 105 and 100 give 1/20 for p.
C2_DerivedValueByModifier ==
    ref.pc = "derived" =>
        \A base \in ReferenceBases :
            /\ ref.reference_key = base => ref.value = Num(ref.joined, 1)
            /\ ref.reference_key = base \o <<"_", "d">> =>
                  ref.value = Num(ref.current - ref.joined, 1)
            /\ (ref.reference_key = base \o <<"_", "p">> /\ ref.joined # 0) =>
                  /\ ref.value.kind = "num"
                  /\ ref.value.num * ref.joined = (ref.current - ref.joined) * ref.value.den
            /\ (ref.reference_key = base \o <<"_", "p">>
                    /\ ref.current = 105 /\ ref.joined = 100) =>
                  (ref.value.num = 1 /\ ref.value.den = 20)

C2_Witness ==
    /\ ref.pc = "derived"
    /\ ref.reference_key = <<"wow", "_", "p">>
    /\ ref.current = 105
    /\ ref.joined = 100
    /\ ref.value = [kind |-> "num", num |-> 1, den |-> 20]

\* C3 as claimed: the columns handed to fetch_dataframe are the metric keys, then
\* per reference its metric_reference columns and nothing else; the index is the
\* dimension keys.
C3_ColumnsAreMetricsAndDerivedMetrics ==
    pc = "returned" =>
        /\ LastFetch.columns =
              MetricKeys \o Concat([r \in 1..Len(request.references) |->
                                       Suffixed(MetricKeys, request.references[r].key)])
        /\ Range(LastFetch.index) = Range(DimensionKeys)

\* C3 as amended: the columns handed to fetch_dataframe are the aliases of all the
\* selected columns: the dimension keys (rolled up ones last), the metric keys,
\* then per reference in declared order its dimension_reference columns and its
\* metric_reference columns; the index is the dimension keys (rolled up ones
\* last).  For clicks, date and wow on date: [date, clicks, date_wow, clicks_wow]
\* and [date].
C3_ColumnsAreAllSelectedAliases ==
    pc = "returned" =>
        /\ LastFetch.columns =
              NonRollupKeys \o RollupKeys \o MetricKeys
              \o Concat([r \in 1..Len(request.references) |->
                            Suffixed(DimensionKeys, request.references[r].key)
                            \o Suffixed(MetricKeys, request.references[r].key)])
        /\ LastFetch.index = NonRollupKeys \o RollupKeys
        /\ (/\ MetricKeys = <<Str("clicks")>>
            /\ DimensionKeys = <<Str("date")>>
            /\ Keys(request.references) = <<Str("wow")>>) =>
              /\ LastFetch.columns =
                    <<Str("date"), Str("clicks"),
                      <<"date", "_", "wow">>, <<"clicks", "_", "wow">>>>
              /\ LastFetch.index = <<Str("date")>>

C3_Witness ==
    /\ pc = "returned"
    /\ MetricKeys = <<Str("clicks")>>
    /\ DimensionKeys = <<Str("date")>>
    /\ request.references = <<[key |-> Str("wow"), dimension |-> Str("date")]>>
    /\ <<"date", "_", "wow">> \in Range(LastFetch.columns)

\* C4: when the rollup keys are among the dimension keys, the index and the
\* selection and grouping order of the dimensions is: the keys not rolled up in
\* declared order, then the rolled up keys in declared order; no rolled up
\* dimension precedes one that is not.
C4_RollupDimensionsLast ==
    (pc = "returned" /\ request.rollup \subseteq Range(DimensionKeys)) =>
        LET expected == NonRollupKeys \o RollupKeys
            n == Len(DimensionKeys)
        IN  /\ LastFetch.index = expected
            /\ frame.index = expected
            /\ SubSeq(select_aliases(query), 1, n) = expected
            /\ groupby_aliases(query) = expected
            /\ query.orderbys = expected
            /\ \A i, j \in 1..Len(query.groupbys) :
                  (i < j /\ query.groupbys[i].rollup) => query.groupbys[j].rollup
            /\ \A i \in 1..Len(query.groupbys) :
                  query.groupbys[i].rollup = (query.groupbys[i].alias \in request.rollup)

C4_Witness ==
    /\ pc = "returned"
    /\ DimensionKeys = <<Str("cat"), Str("date")>>
    /\ request.rollup = {Str("cat")}
    /\ LastFetch.index = <<Str("date"), Str("cat")>>

\* the columns reference number r added to the compiled query
ComparisonAliases(r) ==
    LET width == Len(DimensionKeys) + Len(MetricKeys)
    IN  SubSeq(select_aliases(query), r * width + 1, (r + 1) * width)

ComparisonAliasesFormatted ==
    \A r \in 1..Len(request.references) :
        ComparisonAliases(r) =
            Suffixed(DimensionKeys \o MetricKeys, request.references[r].key)

\* no dimension or metric key is another one followed by an underscore and more
NoKeyExtendsAnother ==
    \A k1, k2 \in Range(DimensionKeys) \cup Range(MetricKeys) :
        ~(Len(k2) > Len(k1) /\ SubSeq(k2, 1, Len(k1) + 1) = k1 \o <<"_">>)

\* C5 as claimed: every column a reference adds is aliased key_reference with the
\* full reference key, for every dimension and metric key, and the selected
\* aliases are pairwise distinct (from each other and from the base keys) for any
\* distinct keys.
C5_AliasesAlwaysDistinct ==
    pc = "returned" =>
        /\ ComparisonAliasesFormatted
        /\ Distinct(select_aliases(query))

\* C5 as amended: every column a reference adds is aliased key_reference with the
\* full reference key, for every dimension and metric key; the selected aliases
\* are pairwise distinct provided no dimension or metric key is another such key
\* followed by an underscore and further text.
C5_AliasesDistinctUnlessKeyExtendsKey ==
    pc = "returned" =>
        /\ ComparisonAliasesFormatted
        /\ NoKeyExtendsAnother => Distinct(select_aliases(query))

C5_Witness ==
    /\ pc = "returned"
    /\ MetricKeys = << <<"clicks", "_", "wow">> >>
    /\ Len(DimensionKeys) = 2
    /\ Keys(request.references) = <<Str("wow"), <<"wow", "_", "d">>>>
    /\ <<"clicks", "_", "wow", "_", "wow", "_", "d">> \in Range(select_aliases(query))
    /\ Distinct(select_aliases(query))

UnknownPrefix(reference) == BeforeFirst(reference.key) \notin ReferenceBases

\* C6: a request with a reference key whose prefix is not wow, mom, qoq or yoy
\* fails with an error raised while compiling: fetch_dataframe is never invoked
\* and no table is returned.
C6_UnknownReferenceRaisesBeforeFetch ==
    (Called /\ \E r \in 1..Len(request.references) : UnknownPrefix(request.references[r])) =>
        /\ pc = "raised"
        /\ error.status = "KeyError"
        /\ fetched = <<>>
        /\ frame = Null

C6_Witness ==
    /\ pc = "raised"
    /\ Len(request.references) = 2
    /\ ~UnknownPrefix(request.references[1])
    /\ HasKey(request.dimensions, request.references[1].dimension)
    /\ UnknownPrefix(request.references[2])
    /\ error = KeyError(Str("foo"))
    /\ fetched = <<>>

\* C7: a request whose rollup holds a key that is not a requested dimension key
\* is rejected while compiling, before any query is issued.
C7_UnknownRollupKeyRejected ==
    (Called /\ ~(request.rollup \subseteq Range(DimensionKeys))) =>
        (pc = "raised" /\ fetched = <<>>)

\* C8: a request with no metrics is rejected while compiling: no query is
\* compiled and fetch_dataframe is not invoked.
C8_EmptyMetricsRejected ==
    (Called /\ request.metrics = <<>>) =>
        (pc = "raised" /\ fetched = <<>>)

\* C9: with modifier p and a joined value of 0 the derived value is a defined
\* sentinel; the derivation never ends in a division-by-zero failure, whatever
\* the current value.
C9_ZeroPriorGivesSentinel ==
    (ref.pc = "derived" /\ ref.mappers.field_f = Str("p") /\ ref.joined = 0) =>
        ref.value.kind # "error"

\* C10: the key is split at its first underscore only: the base is the text
\* before it, the modifier all the text after it; the key resolves exactly when
\* the base is known and the modifier is absent, d or p, so wow_d_p and wow_d_x
\* do not resolve as wow_d.
C10_SplitAtFirstUnderscoreOnly ==
    ref.pc = "resolved" =>
        LET key == ref.reference_key
            valid == /\ BeforeFirst(key) \in ReferenceBases
                     /\ HasUnderscore(key) => AfterFirst(key) \in ReferenceModifiers
        IN  /\ (ref.mappers.status = "ok") = valid
            /\ valid => /\ ref.mappers.criterion_f = BeforeFirst(key)
                        /\ ref.mappers.field_f =
                              IF HasUnderscore(key) THEN AfterFirst(key) ELSE <<>>

\* the pairs a unique dimension with key K and the given id fields expands into
ExpectedPairs(dimension) ==
    LET k == Len(dimension.id_fields.value)
    IN  [i \in 1..(k + 1) |->
            IF i <= k
            THEN <<dimension.key \o <<"_", "id" \o ToString(i - 1)>>,
                   dimension.id_fields.value[i]>>
            ELSE <<dimension.key \o <<"_", "label">>, dimension.definition>>]

\* C11: a unique dimension with key K and k >= 1 id fields expands into exactly
\* k+1 pairs: K_id0 .. K_id(k-1) with the id expressions in declared order, then
\* K_label with the label expression, whatever arguments schemas is given.
C11_UniqueExpansion ==
    (/\ expansion.pc = "expanded"
     /\ expansion.dimension.id_fields.some
     /\ Len(expansion.dimension.id_fields.value) >= 1) =>
        /\ expansion.result.status = "ok"
        /\ Len(expansion.result.pairs) = Len(expansion.dimension.id_fields.value) + 1
        /\ expansion.result.pairs = ExpectedPairs(expansion.dimension)
        /\ expansion.dimension.label_field.some =>
              expansion.result.pairs[Len(expansion.result.pairs)][2] =
                  expansion.dimension.label_field.value

C11_Witness ==
    /\ expansion.pc = "expanded"
    /\ expansion.args = <<5, 1>>
    /\ expansion.dimension.key = <<"ad", "_", "group">>
    /\ expansion.dimension.label_field.some
    /\ expansion.result.status = "ok"
    /\ Len(expansion.result.pairs) = 3
    /\ expansion.result.pairs[1][1] = <<"ad", "_", "group", "_", "id0">>
    /\ expansion.result.pairs[2][1] = <<"ad", "_", "group", "_", "id1">>
    /\ expansion.result.pairs[3][1] = <<"ad", "_", "group", "_", "label">>

\* C12: expanding a unique dimension with no id fields (omitted, or an empty
\* list) signals an error; it never returns a list of pairs.
C12_NoIdFieldsIsAnError ==
    (/\ expansion.pc = "expanded"
     /\ (~expansion.dimension.id_fields.some \/ expansion.dimension.id_fields.value = <<>>)) =>
        expansion.result.status # "ok"

\* the grouped columns of the compiled query that come from the unique dimension
ExpandedGroupBys ==
    {g \in Range(expansion.built.query.groupbys) : g.alias # Str("date")}

\* C18: rollup membership is decided by the original key K of a unique
\* dimension: with K in the rollup set all of K's expanded columns are grouped
\* under ROLLUP, after the columns that are not rolled up; with K not in it,
\* none of them is.
C18_ExpansionInheritsRollup ==
    expansion.pc = "compiled" =>
        LET groupbys == expansion.built.query.groupbys
        IN  /\ \A g \in ExpandedGroupBys :
                  g.rollup = (expansion.dimension.key \in expansion.rollup)
            /\ \A i, j \in 1..Len(groupbys) :
                  (i < j /\ groupbys[i].rollup) => groupbys[j].rollup

RECURSIVE Conjuncts(_)
\* the conjuncts of a criterion, in the order they were and-ed
Conjuncts(e) == IF e.op = "and" THEN Conjuncts(e.left) \o <<e.right>> ELSE <<e>>

\* C15: the join criterion of a reference on dimension key k has exactly one
\* conjunct per requested dimension: the shifted criterion on k and, for every
\* other dimension key, the equality of that dimension with the same dimension of
\* the sub-query; no key is skipped, also when another key has the same
\* definition as k.
C15_OneConjunctPerDimension ==
    (ref.pc = "criterion" /\ ref.built.status = "ok") =>
        LET cs == Conjuncts(ref.built.cx)
            others == SelectSeq(ref.dimensions, LAMBDA item : item.key # ref.dimension_key)
        IN  /\ Len(cs) = Len(ref.dimensions)
            /\ cs[1].op = "eq" /\ cs[1].right.op = "sub"
            /\ \A i \in 1..Len(others) :
                  cs[i + 1] = [op |-> "eq", left |-> others[i].definition,
                               right |-> [op |-> "for", term |-> others[i].definition,
                                          table |-> 1]]

(***************************************************************************)
(* The compiled query of a returned call, seen from its reference joins.   *)
(***************************************************************************)
\* the number of joins the request declares, which precede the reference joins
DeclaredJoins == Len(request.joins)

\* the sub-query joined for the r-th reference of the request
SubQuery(r) == query.joins[DeclaredJoins + r].target

\* the columns one block of the select list holds: the dimensions and the metrics
BlockWidth == Len(request.dimensions) + Len(request.metrics)

\* C13: every dimension filter of the request is a WHERE criterion of the
\* compiled query and every metric filter a HAVING criterion, each once, in the
\* order given, and nothing else is in either list.
C13_FiltersLandInTheirClause ==
    pc = "returned" =>
        /\ query.wheres = request.dfilters
        /\ query.havings = request.mfilters

C13_Witness ==
    /\ pc = "returned"
    /\ Len(request.dfilters) = 2 /\ Len(request.mfilters) = 1
    /\ query.wheres = <<"where_1", "where_2">>
    /\ query.havings = <<"having_1">>

\* C16: the sub-query of every reference is the base query alone: it holds the
\* declared joins and the first block of selected columns and nothing of the
\* references that precede it.
C16_SubQueriesAreTheBaseQuery ==
    pc = "returned" =>
        \A r \in 1..Len(request.references) :
            /\ SubQuery(r).joins = SubSeq(query.joins, 1, DeclaredJoins)
            /\ SubQuery(r).selects = SubSeq(query.selects, 1, BlockWidth)

\* C17: the sub-query joined for a reference is the query as it stood when the
\* copy was taken: the joins and columns added up to then, the grouping, and
\* nothing that was added to the outer query afterwards.
C17_SubQueryIsTheQueryAtCopyTime ==
    pc = "returned" =>
        \A r \in 1..Len(request.references) :
            /\ SubQuery(r).from = query.from
            /\ SubQuery(r).joins = SubSeq(query.joins, 1, DeclaredJoins + r - 1)
            /\ SubQuery(r).selects = SubSeq(query.selects, 1, r * BlockWidth)
            /\ SubQuery(r).groupbys = query.groupbys
            /\ SubQuery(r).orderbys = <<>>
            /\ SubQuery(r).wheres = <<>>
            /\ SubQuery(r).havings = <<>>

C17_Witness ==
    /\ pc = "returned"
    /\ Len(request.references) = 2
    /\ BlockWidth = 4
    /\ Len(query.selects) = 12
    /\ Len(SubQuery(2).selects) = 8
    /\ Len(SubQuery(1).selects) = 4

RECURSIVE SubQueries(_)
\* the queries joined into q, at every depth
SubQueries(q) ==
    LET direct == {q.joins[i].target : i \in {j \in 1..Len(q.joins) : q.joins[j].sub}}
    IN  direct \cup UNION {SubQueries(s) : s \in direct}

\* C19: the filters and the ordering are on the outer query alone: no joined
\* sub-query, at any depth, has a WHERE or HAVING criterion or an ORDER BY term,
\* while the outer query orders by its dimensions.
C19_FiltersAndOrderOnOuterQueryOnly ==
    pc = "returned" =>
        /\ \A s \in SubQueries(query) :
              s.wheres = <<>> /\ s.havings = <<>> /\ s.orderbys = <<>>
        /\ query.orderbys = groupby_aliases(query)

C19_Witness ==
    /\ pc = "returned"
    /\ request.references # <<>>
    /\ query.wheres # <<>> /\ query.havings # <<>> /\ query.orderbys # <<>>
    /\ SubQueries(query) # {}
    /\ \E s \in SubQueries(query) : s.groupbys # <<>> /\ s.wheres = <<>>
====
